---------------------------- MODULE Spec2Model ----------------------------
(***************************************************************************)
(* Smart Emotion Mirror: the capture -> analyze -> speak loop of App.tsx,  *)
(* the analysis client of geminiService.ts and the speech hook of          *)
(* useSpeechSynthesis.ts.                                                  *)
(*                                                                         *)
(* React state is modelled as committed at the setter call.  A change of   *)
(* isAnalyzing runs the [isAnalyzing] effect (cleanup of the previous run, *)
(* then the body) in the same step, with the captureAndAnalyze closure of  *)
(* the render that committed the change: the closure values (isLoading,    *)
(* lastSpokenMessage, and the `speaking` of the speak callback) are stored *)
(* with the interval timer and with every request it issues.               *)
(***************************************************************************)
EXTENDS Integers, Sequences, FiniteSets, Bags, TLC

\* ------------------------------------------------------------- bounds
MaxInFlight == 2      \* analysis requests awaiting the remote model
MaxUtterances == 2    \* utterances held by window.speechSynthesis
MaxPendingCam == 2    \* getUserMedia promises not yet settled
MaxStreams == 2       \* MediaStreams whose tracks are running
MaxVoices == 2        \* voices speechSynthesis.getVoices() returns

\* ------------------------------------------------------------- values
Null == "null"
Undefined == "undefined"
NullResult == [null |-> TRUE]

Emotion == {"HAPPY", "SAD", "STRESSED", "FOCUSED", "TIRED", "NEUTRAL", "SURPRISED", "ANGRY"}

emotionValues == Emotion

Fields == {"emotion", "environmentAnalysis", "encouragingMessage", "productivityTip"}

GeminiError == "Failed to get analysis from Gemini API. Please check your API key and network connection."
CameraUnsupported == "Your browser does not support camera access."
CameraDenied == "Could not access camera. Please check permissions."

\* obj.f of a JavaScript object: undefined when the property is absent
Get(obj, f) == IF f \in DOMAIN obj THEN obj[f] ELSE Undefined

\* obj.f = v
Put(obj, f, v) == [g \in (DOMAIN obj) \cup {f} |-> IF g = f THEN v ELSE obj[g]]

Restrict(obj, D) == [g \in D |-> obj[g]]

\* !text
Falsy(text) == text \in {"", Undefined, Null}

\* ---------------------------------------------- responses of the model
\* What ai.models.generateContent can settle with: a rejection, a response
\* without text, or a text that JSON.parse rejects or parses to null, to a
\* primitive (number, string, boolean) or to an object.
NoObject == [g \in {} |-> ""]

FullObject(e, m) ==
    [emotion |-> e, environmentAnalysis |-> "dim room", encouragingMessage |-> m,
     productivityTip |-> "take a break"]

\* Every object over the four properties: each emotion and an unknown one,
\* an empty, a first and a second message, and any of the properties absent.
Messages == {"", "keep going", "well done"}

AllObjects ==
    {Restrict(FullObject(e, m), D) :
       e \in Emotion \cup {"CONFUSED"}, m \in Messages, D \in SUBSET Fields}

FailureKinds == {"reject", "notext", "badjson", "null", "primitive"}

AllResponses ==
    {[kind |-> k, obj |-> NoObject] : k \in FailureKinds}
      \cup {[kind |-> "object", obj |-> o] : o \in AllObjects}

\* The responses the concurrent loop is explored with: a failure and a
\* result (results that differ are explored one request at a time).
Responses ==
    {[kind |-> "reject", obj |-> NoObject],
     [kind |-> "object", obj |-> FullObject("HAPPY", "keep going")]}

Thrown == [ok |-> FALSE, value |-> NoObject, message |-> GeminiError]

Returned(o) == [ok |-> TRUE, value |-> o, message |-> ""]

ValidateEmotionSkipped(result) == result

\* Validate emotion enum (geminiService.ts 66-69)
ValidateEmotion(result) ==
    IF Get(result, "emotion") \in emotionValues
    THEN result
    ELSE Put(result, "emotion", "NEUTRAL")

analyzeImageLenient(resp) ==
    IF resp.kind \in {"reject", "notext", "badjson"}
    THEN Thrown
    ELSE Returned(ValidateEmotion(resp.obj))

\* analyzeImage: every throw inside the try is rethrown as the fixed Error.
\* reading .emotion of null throws; assigning .emotion on a primitive throws
\* in module (strict) code, and a primitive has no emotion to pass the check.
analyzeImage(resp) ==
    CASE resp.kind = "reject" -> Thrown
      [] resp.kind = "notext" -> Thrown
      [] resp.kind = "badjson" -> Thrown
      [] resp.kind = "null" -> Thrown
      [] resp.kind = "primitive" -> Thrown
      [] OTHER -> Returned(ValidateEmotion(resp.obj))


\* ------------------------------------------------------- presentation
emotionConfig ==
    [e \in Emotion |->
       CASE e = "HAPPY" -> [gradient |-> "from-yellow-400 via-orange-500 to-red-500", icon |-> "smiling", title |-> "Radiating Joy!"]
         [] e = "SAD" -> [gradient |-> "from-blue-400 via-indigo-500 to-purple-600", icon |-> "crying", title |-> "Feeling Blue"]
         [] e = "STRESSED" -> [gradient |-> "from-red-500 via-pink-600 to-purple-700", icon |-> "tired-face", title |-> "Feeling Stressed"]
         [] e = "FOCUSED" -> [gradient |-> "from-green-400 via-teal-500 to-cyan-600", icon |-> "thinking", title |-> "In The Zone"]
         [] e = "TIRED" -> [gradient |-> "from-gray-600 via-slate-700 to-zinc-800", icon |-> "sleeping", title |-> "Feeling Tired"]
         [] e = "NEUTRAL" -> [gradient |-> "from-slate-500 via-gray-600 to-slate-700", icon |-> "neutral", title |-> "Calm & Collected"]
         [] e = "SURPRISED" -> [gradient |-> "from-pink-400 via-purple-500 to-indigo-500", icon |-> "astonished", title |-> "Surprised!"]
         [] OTHER -> [gradient |-> "from-red-600 via-rose-700 to-red-800", icon |-> "angry", title |-> "Feeling Angry"]]

emotionVisualEffects ==
    [e \in Emotion |->
       CASE e = "HAPPY" -> "border-yellow-300/50 animate-pulse-slow"
         [] e = "FOCUSED" -> "border-cyan-400/70 shadow-lg shadow-cyan-400/50"
         [] e = "SAD" -> "border-blue-400/30"
         [] e = "STRESSED" -> "border-red-500/60 animate-shake-fast"
         [] e = "ANGRY" -> "border-red-600/80 animate-shake-fast"
         [] e = "TIRED" -> "border-transparent vignette"
         [] e = "SURPRISED" -> "border-indigo-400/80 animate-ping-once"
         [] OTHER -> "border-transparent"]

emotionFilterEffects ==
    [e \in {"SAD", "TIRED"} |->
       IF e = "SAD" THEN "saturate-[.75] brightness-90" ELSE "brightness-90"]

\* table[key], undefined for a key the table lacks
Lookup(table, key) == IF key \in DOMAIN table THEN table[key] ELSE Undefined

currentEmotionIgnored(result) == "NEUTRAL"

\* analysisResult?.emotion || Emotion.NEUTRAL
currentEmotion(result) ==
    IF result = NullResult \/ Falsy(Get(result, "emotion"))
    THEN "NEUTRAL"
    ELSE result["emotion"]

\* What a render derives from the state (App.tsx 93-96).  Destructuring a
\* missing emotionConfig entry throws: nothing is shown.
Render(result, analyzing) ==
    LET e == currentEmotion(result)
        cfg == emotionConfig[e]
        shown == analyzing /\ result # NullResult
    IN IF e \notin DOMAIN emotionConfig
       THEN [gradient |-> Undefined, icon |-> Undefined, title |-> Undefined,
             visualEffectClass |-> Undefined, filterEffectClass |-> Undefined]
       ELSE [gradient |-> cfg.gradient, icon |-> cfg.icon, title |-> cfg.title,
             visualEffectClass |->
                 IF shown THEN Lookup(emotionVisualEffects, e)
                 ELSE Lookup(emotionVisualEffects, "NEUTRAL"),
             filterEffectClass |->
                 IF shown /\ e \in DOMAIN emotionFilterEffects
                 THEN emotionFilterEffects[e] ELSE ""]

\* ------------------------------------------------------------- state
VARIABLES
    mounted,            \* the App component is mounted (videoRef, canvasRef set)
    isAnalyzing, isLoading, error, analysisResult, lastSpokenMessage,
    speaking,           \* useSpeechSynthesis state
    view,               \* what the last render shows
    intervalRef,        \* intervalRef.current, 0 for null
    timers,             \* registered interval timers, each with its closure
    streamRef,          \* streamRef.current, 0 for null
    srcObject,          \* video.srcObject, 0 for null
    liveStreams,        \* MediaStreams whose tracks have not been stopped
    gumPending,         \* getUserMedia promises not yet settled
    cameraSupported,    \* navigator.mediaDevices.getUserMedia exists
    inflight,           \* bag of analysis requests awaiting the model, with closures
    utterances,         \* the queue of window.speechSynthesis
    uttStarted,         \* the head of the queue has fired its start event
    voices,             \* useSpeechSynthesis state: the voices last fetched
    stopped,            \* history: handleStop ran and handleStart has not since
    spokenLast,         \* history: argument of the most recent speak call
    lastStep            \* history: what the last step did

vars == <<mounted, isAnalyzing, isLoading, error, analysisResult, lastSpokenMessage,
          speaking, view, intervalRef, timers, streamRef, srcObject, liveStreams,
          gumPending, cameraSupported, inflight, utterances, uttStarted,
          voices, stopped, spokenLast, lastStep>>

NoCall == "no call"
Idle == [op |-> "other"]

camVars == <<streamRef, srcObject, liveStreams, gumPending>>
timerVars == <<intervalRef, timers>>
speechVars == <<speaking, utterances, uttStarted, voices, spokenLast>>

\* State after the first render and the first run of the effects: the
\* [isAnalyzing] effect takes its else branch with nothing to stop.
Init ==
    /\ mounted = TRUE
    /\ isAnalyzing = FALSE
    /\ isLoading = FALSE
    /\ error = Null
    /\ analysisResult = NullResult
    /\ lastSpokenMessage = ""
    /\ speaking = FALSE
    /\ view = Render(NullResult, FALSE)
    /\ intervalRef = 0
    /\ timers = {}
    /\ streamRef = 0
    /\ srcObject = 0
    /\ liveStreams = {}
    /\ gumPending = 0
    /\ cameraSupported \in BOOLEAN
    /\ inflight = EmptyBag
    /\ utterances = << >>
    /\ uttStarted = FALSE
    /\ voices = << >>
    /\ stopped = FALSE
    /\ spokenLast = NoCall
    /\ lastStep = Idle


\* ------------------------------------------------------------ helpers
\* streamRef.current.getTracks().forEach(track => track.stop())
StopTracks(live, ref) == live \ {ref}

ClearIntervalLost(ts, id) == ts

\* clearInterval(id)
ClearInterval(ts, id) == {t \in ts : t.id # id}

\* window.setInterval hands out an id no registered timer has
NewTimerId(ts) ==
    CHOOSE i \in 1..(Cardinality(ts) + 1) :
        /\ i \notin {t.id : t \in ts}
        /\ \A j \in 1..(i - 1) : j \in {t.id : t \in ts}

\* The closure of captureAndAnalyze made by the current render: isLoading and
\* lastSpokenMessage of that render, and the speak callback of that render,
\* which closes over `speaking` and `voices` (useCallback deps, App.tsx 158,
\* hook 55).
Closure(loading, last, spk, vs) ==
    [cIsLoading |-> loading, cLast |-> last, cSpeaking |-> spk, cVoices |-> vs]

\* window.setInterval(() => captureAndAnalyze(), 5000)
SetInterval(ts, cl) ==
    ts \cup {[id |-> NewTimerId(ts), cIsLoading |-> cl.cIsLoading,
              cLast |-> cl.cLast, cSpeaking |-> cl.cSpeaking,
              cVoices |-> cl.cVoices]}

\* The cleanup returned by the effect (App.tsx 174-179): stopWebcam, then
\* clearInterval without resetting intervalRef.  videoRef.current is null
\* once the component has been removed.
CleanupTimers(ts, ref) == IF ref # 0 THEN ClearInterval(ts, ref) ELSE ts

\* The queue of speechSynthesis after speak(text) called through a callback
\* whose `speaking` is spk (hook 25-55)
SpeakQueue(q, text, spk) ==
    IF Falsy(text) THEN q
    ELSE Append(IF spk THEN << >> ELSE q, text)

\* speak(text) reached speechSynthesis.cancel() with something to cancel
Cancels(q, text, spk) == ~Falsy(text) /\ spk /\ q # << >>

\* ------------------------------------------------------------- voices
\* Strings that speak inspects are sequences of characters.
StartsWith(str, prefix) ==
    Len(str) >= Len(prefix) /\ SubSeq(str, 1, Len(prefix)) = prefix

Includes(str, part) ==
    \E i \in 1..(Len(str) - Len(part) + 1) : SubSeq(str, i, i + Len(part) - 1) = part

Google == <<"G", "o", "o", "g", "l", "e">>
En == <<"e", "n">>
EnUS == <<"e", "n", "-", "U", "S">>
EnGB == <<"e", "n", "-", "G", "B">>
DeDE == <<"d", "e", "-", "D", "E">>

\* Voices a browser may offer
VoicePool ==
    {[name |-> Google \o <<" ", "U", "K">>, lang |-> EnGB],
     [name |-> Google \o <<" ", "D", "E">>, lang |-> DeDE],
     [name |-> <<"D", "a", "v", "i", "d">>, lang |-> EnUS],
     [name |-> <<"D", "a", "n", "i", "e", "l">>, lang |-> EnGB]}

\* The lists getVoices() may return: up to MaxVoices different voices
VoiceLists ==
    UNION {{vs \in [1..n -> VoicePool] : \A i, j \in 1..n : vs[i] = vs[j] => i = j} :
             n \in 0..MaxVoices}

\* The utterance keeps the default voice
NoVoice == [name |-> << >>, lang |-> << >>]

IsGoogleEn[voice \in VoicePool] ==
    Includes(voice.name, Google) /\ StartsWith(voice.lang, En)

IsEnUS[voice \in VoicePool] == StartsWith(voice.lang, EnUS)

IsEn[voice \in VoicePool] == StartsWith(voice.lang, En)

\* voices.find(pred): the first voice of the list that satisfies pred
Find(vs, pred) ==
    LET hits == {i \in 1..Len(vs) : pred[vs[i]]}
    IN IF hits = {} THEN NoVoice
       ELSE vs[CHOOSE i \in hits : \A j \in hits : i <= j]

\* preferredVoice of speak (hook 38-44) over the voices of its closure
PreferredVoice(vs) ==
    LET google == Find(vs, IsGoogleEn)
        us == Find(vs, IsEnUS)
    IN IF google # NoVoice THEN google
       ELSE IF us # NoVoice THEN us
       ELSE Find(vs, IsEn)

\* Requests issued before a handleStart belong to an earlier session
MarkOld(reqs) ==
    LET had == BagToSet(reqs)
        count(x) == IF x \in had THEN reqs[x] ELSE 0
    IN [x \in {[r EXCEPT !.old = TRUE] : r \in had} |->
          count(x) + count([x EXCEPT !.old = FALSE])]

\* Identities left for a MediaStream that getUserMedia creates
FreeStreams == (1..MaxStreams) \ (liveStreams \cup {srcObject})

NewStream == CHOOSE s \in FreeStreams : \A u \in FreeStreams : s <= u

\* ------------------------------------------------------------ effects
\* The [isAnalyzing] effect after a render that committed isAnalyzing = TRUE:
\* cleanup of the previous run, then startWebcam() and setInterval.
\* `err` is the error the render committed.
EffectStart(err) ==
    LET ts == CleanupTimers(timers, intervalRef)
        cl == Closure(isLoading, lastSpokenMessage, speaking, voices)
        ts2 == SetInterval(ts, cl)
    IN /\ liveStreams' = (IF streamRef # 0 THEN StopTracks(liveStreams, streamRef) ELSE liveStreams)
       /\ streamRef' = 0
       /\ srcObject' = 0
       /\ timers' = ts2
       /\ intervalRef' = NewTimerId(ts)
       /\ IF cameraSupported
          THEN /\ gumPending' = gumPending + 1
               /\ error' = err
          ELSE /\ gumPending' = gumPending
               /\ error' = CameraUnsupported

\* The [isAnalyzing] effect after a render that committed isAnalyzing = FALSE:
\* cleanup of the previous run, then stopWebcam() and clearInterval.
EffectStop ==
    LET ts == CleanupTimers(timers, intervalRef)
    IN /\ liveStreams' = (IF streamRef # 0 THEN StopTracks(liveStreams, streamRef) ELSE liveStreams)
       /\ streamRef' = 0
       /\ srcObject' = 0
       /\ timers' = (IF intervalRef # 0 THEN ClearInterval(ts, intervalRef) ELSE ts)
       /\ intervalRef' = 0
       /\ gumPending' = gumPending

\* ------------------------------------------------------------ actions
\* Click on "Start Analysis" (shown while !isAnalyzing)
handleStart ==
    /\ mounted /\ ~isAnalyzing
    /\ cameraSupported => gumPending < MaxPendingCam
    /\ analysisResult' = NullResult
    /\ isAnalyzing' = TRUE
    /\ EffectStart(Null)
    /\ view' = Render(NullResult, TRUE)
    /\ inflight' = MarkOld(inflight)
    /\ stopped' = FALSE
    /\ lastStep' = [op |-> "start"]
    /\ UNCHANGED <<mounted, isLoading, lastSpokenMessage, cameraSupported, speechVars>>

\* Click on "Stop Analysis" (shown while isAnalyzing)
handleStop ==
    /\ mounted /\ isAnalyzing
    /\ isAnalyzing' = FALSE
    /\ EffectStop
    /\ view' = Render(analysisResult, FALSE)
    /\ stopped' = TRUE
    /\ lastStep' = [op |-> "stop"]
    /\ UNCHANGED <<mounted, isLoading, error, analysisResult, lastSpokenMessage,
                   cameraSupported, inflight, speechVars>>

\* getUserMedia resolves with a new MediaStream (App.tsx 101-105)
GumResolve ==
    /\ gumPending > 0
    /\ FreeStreams # {}
    /\ LET s == NewStream
       IN /\ liveStreams' = liveStreams \cup {s}
          /\ IF mounted
             THEN srcObject' = s /\ streamRef' = s
             ELSE UNCHANGED <<srcObject, streamRef>>
    /\ gumPending' = gumPending - 1
    /\ lastStep' = Idle
    /\ UNCHANGED <<mounted, isAnalyzing, isLoading, error, analysisResult,
                   lastSpokenMessage, view, timerVars, cameraSupported, inflight,
                   speechVars, stopped>>

\* getUserMedia rejects (App.tsx 109-112)
GumReject ==
    /\ gumPending > 0
    /\ gumPending' = gumPending - 1
    /\ error' = (IF mounted THEN CameraDenied ELSE error)
    /\ lastStep' = Idle
    /\ UNCHANGED <<mounted, isAnalyzing, isLoading, analysisResult, lastSpokenMessage,
                   view, timerVars, streamRef, srcObject, liveStreams, cameraSupported,
                   inflight, speechVars, stopped>>

\* An interval timer fires: captureAndAnalyze of its closure runs up to the
\* await (App.tsx 125-142).  The canvas is only ever asked for its 2d
\* context, which it then always has.
Tick ==
    \E t \in timers :
      /\ IF t.cIsLoading \/ ~mounted
         THEN /\ lastStep' = [op |-> "tick", captured |-> FALSE]
              /\ UNCHANGED <<isLoading, error, inflight>>
         ELSE /\ BagCardinality(inflight) < MaxInFlight
              /\ isLoading' = TRUE
              /\ error' = Null
              /\ inflight' = inflight (+) SetToBag({[cLast |-> t.cLast,
                                 cSpeaking |-> t.cSpeaking, cVoices |-> t.cVoices,
                                 old |-> FALSE]})
              /\ lastStep' = [op |-> "tick", captured |-> TRUE]
      /\ UNCHANGED <<mounted, isAnalyzing, analysisResult, lastSpokenMessage, view,
                     timerVars, camVars, cameraSupported, speechVars, stopped>>


StopOnErrorMissing(analyzing) == analyzing

\* setIsAnalyzing(false) in the catch: "Stop on error"
StopOnError(analyzing) == FALSE

\* The remote call of request req settles with resp and captureAndAnalyze
\* resumes after the await (App.tsx 142-157).  State setters of a component
\* that is no longer mounted do nothing; speak still reaches speechSynthesis.
Response(req, resp) ==
    LET r == analyzeImage(resp)
        text == Get(r.value, "encouragingMessage")
        speaks == r.ok /\ text # req.cLast
        q == IF speaks THEN SpeakQueue(utterances, text, req.cSpeaking) ELSE utterances
        cancelled == speaks /\ Cancels(utterances, text, req.cSpeaking)
    IN /\ Len(q) <= MaxUtterances
       /\ inflight' = inflight (-) SetToBag({req})
       /\ utterances' = q
       /\ uttStarted' = (IF cancelled THEN FALSE ELSE uttStarted)
       /\ speaking' = (IF cancelled /\ mounted THEN FALSE ELSE speaking)
       /\ spokenLast' = (IF speaks THEN text ELSE spokenLast)
       /\ lastStep' = [op |-> "response", resp |-> resp, ok |-> r.ok,
                       spoke |-> IF speaks THEN text ELSE NoCall,
                       voice |-> IF speaks /\ ~Falsy(text)
                                 THEN PreferredVoice(req.cVoices) ELSE NoVoice,
                       old |-> req.old,
                       wasAnalyzing |-> isAnalyzing]
       /\ IF ~mounted
          THEN UNCHANGED <<isAnalyzing, isLoading, error, analysisResult,
                           lastSpokenMessage, view, timerVars, camVars>>
          ELSE /\ isLoading' = FALSE
               /\ IF r.ok
                  THEN /\ analysisResult' = r.value
                       /\ lastSpokenMessage' = (IF speaks THEN text ELSE lastSpokenMessage)
                       /\ view' = Render(r.value, isAnalyzing)
                       /\ UNCHANGED <<isAnalyzing, error, timerVars, camVars>>
                  ELSE /\ error' = r.message
                       /\ isAnalyzing' = StopOnError(isAnalyzing)
                       /\ view' = Render(analysisResult, isAnalyzing')
                       /\ IF isAnalyzing /\ ~isAnalyzing'
                          THEN EffectStop
                          ELSE UNCHANGED <<timerVars, camVars>>
                       /\ UNCHANGED <<analysisResult, lastSpokenMessage>>
       /\ UNCHANGED <<mounted, cameraSupported, voices, stopped>>

AnalysisSettles == \E req \in BagToSet(inflight) : \E resp \in Responses : Response(req, resp)

\* The utterance at the head of the queue starts: utterance.onstart
UtterStart ==
    /\ utterances # << >> /\ ~uttStarted
    /\ uttStarted' = TRUE
    /\ speaking' = (IF mounted THEN TRUE ELSE speaking)
    /\ lastStep' = Idle
    /\ UNCHANGED <<mounted, isAnalyzing, isLoading, error, analysisResult,
                   lastSpokenMessage, view, timerVars, camVars, cameraSupported,
                   inflight, utterances, voices, stopped, spokenLast>>

\* The utterance being spoken ends or fails: utterance.onend / onerror
UtterEnd ==
    /\ utterances # << >> /\ uttStarted
    /\ utterances' = Tail(utterances)
    /\ uttStarted' = FALSE
    /\ speaking' = (IF mounted THEN FALSE ELSE speaking)
    /\ lastStep' = Idle
    /\ UNCHANGED <<mounted, isAnalyzing, isLoading, error, analysisResult,
                   lastSpokenMessage, view, timerVars, camVars, cameraSupported,
                   inflight, voices, stopped, spokenLast>>

\* The component is removed: the effect's cleanup runs (App.tsx 174-179)
\* with videoRef.current already null.  The component's state, its refs and
\* the video element cease to exist: they are put back to their initial
\* values, and what outlives the component (pending promises, the speech
\* queue, running streams) stays.
Unmount ==
    /\ mounted
    /\ mounted' = FALSE
    /\ liveStreams' = (IF streamRef # 0 THEN StopTracks(liveStreams, streamRef) ELSE liveStreams)
    /\ timers' = CleanupTimers(timers, intervalRef)
    /\ streamRef' = 0 /\ srcObject' = 0 /\ intervalRef' = 0
    /\ isAnalyzing' = FALSE /\ isLoading' = FALSE /\ error' = Null
    /\ analysisResult' = NullResult /\ lastSpokenMessage' = "" /\ speaking' = FALSE
    /\ view' = Render(NullResult, FALSE)
    /\ voices' = << >> /\ stopped' = FALSE
    /\ lastStep' = [op |-> "unmount"]
    /\ UNCHANGED <<gumPending, cameraSupported, inflight, utterances, uttStarted,
                   spokenLast>>

Next ==
    \/ handleStart
    \/ handleStop
    \/ GumResolve
    \/ GumReject
    \/ Tick
    \/ AnalysisSettles
    \/ UtterStart
    \/ UtterEnd
    \/ Unmount

Spec == Init /\ [][Next]_vars

\* ------------------------------------------------ one request at a time
\* The same component in an environment that settles every asynchronous
\* call before the next click or tick (the camera is granted, the model
\* answers and the utterance ends within the interval), explored with every
\* shape of response.
CameraSettled == gumPending = 0

SerialStart == CameraSettled /\ handleStart

SerialStop == CameraSettled /\ handleStop

SerialTick == CameraSettled /\ inflight = EmptyBag /\ utterances = << >> /\ Tick

AnyAnalysisSettles ==
    \E req \in BagToSet(inflight) : \E resp \in AllResponses : Response(req, resp)

NextData ==
    \/ SerialStart
    \/ SerialStop
    \/ GumResolve
    \/ SerialTick
    \/ AnyAnalysisSettles
    \/ UtterStart
    \/ UtterEnd

SpecData == Init /\ [][NextData]_vars

\* ------------------------------------------------------ the voice list
\* The 'voiceschanged' event: handleVoicesChanged stores getVoices()
\* (hook 9-18); the handler is removed when the component is.
VoicesChanged ==
    /\ mounted
    /\ \E vs \in VoiceLists : voices' = vs
    /\ lastStep' = Idle
    /\ UNCHANGED <<mounted, isAnalyzing, isLoading, error, analysisResult,
                   lastSpokenMessage, speaking, view, timerVars, camVars,
                   cameraSupported, inflight, utterances, uttStarted, stopped,
                   spokenLast>>

\* Results with an empty message and with one to speak
VoiceResponses ==
    {[kind |-> "object", obj |-> FullObject("HAPPY", m)] : m \in {"", "keep going"}}

SpokenAnalysisSettles ==
    \E req \in BagToSet(inflight) : \E resp \in VoiceResponses : Response(req, resp)

\* The serial environment again, with the browser's voice list changing
NextVoice ==
    \/ SerialStart
    \/ SerialStop
    \/ GumResolve
    \/ SerialTick
    \/ SpokenAnalysisSettles
    \/ UtterStart
    \/ UtterEnd
    \/ VoicesChanged

SpecVoice == Init /\ [][NextVoice]_vars

\* ------------------------------------------------------------- claims
IsResponse(step) == step.op = "response"

IsTick(step) == step.op = "tick"

\* C1: speak is invoked for a result only if its encouragingMessage differs
\* from the message of the most recently spoken result, so two consecutive
\* results with the same message cause one speak call.
C1_SpeaksOnlyNewMessage ==
    [][(IsResponse(lastStep') /\ lastStep'.spoke # NoCall)
          => lastStep'.spoke # spokenLast]_vars

\* C2: a failed analysis request sets error to the failure message, sets
\* isAnalyzing to false and cancels the interval timer; a request is issued
\* only while isAnalyzing is true, and only handleStart makes it true.
C2_StopsOnError ==
    [][/\ (IsResponse(lastStep') /\ ~lastStep'.ok /\ mounted)
            => (error' = GeminiError /\ ~isAnalyzing' /\ timers' = {})
       /\ (IsTick(lastStep') /\ lastStep'.captured) => isAnalyzing
       /\ BagCardinality(inflight') > BagCardinality(inflight)
            => (IsTick(lastStep') /\ lastStep'.captured)
       /\ (~isAnalyzing /\ isAnalyzing') => lastStep'.op = "start"]_vars

C2_Witness ==
    /\ IsResponse(lastStep) /\ ~lastStep.ok /\ lastStep.wasAnalyzing
    /\ mounted /\ error = GeminiError /\ ~isAnalyzing /\ timers = {}
    /\ inflight # EmptyBag

\* C3: for a response that parses to an object, the stored result has the
\* response's emotion when that is one of the eight and NEUTRAL otherwise,
\* with the other three properties as in the response; the emotion held in
\* analysisResult is always one of the eight.
C3_EmotionInClosedSet ==
    /\ analysisResult # NullResult => Get(analysisResult, "emotion") \in Emotion
    /\ (IsResponse(lastStep) /\ lastStep.resp.kind = "object") =>
         LET o == lastStep.resp.obj
         IN /\ lastStep.ok
            /\ analysisResult # NullResult
            /\ Get(analysisResult, "emotion") =
                 (IF Get(o, "emotion") \in Emotion THEN o["emotion"] ELSE "NEUTRAL")
            /\ \A f \in Fields \ {"emotion"} : Get(analysisResult, f) = Get(o, f)
            /\ DOMAIN analysisResult = (DOMAIN o) \cup {"emotion"}

C3_Witness ==
    /\ IsResponse(lastStep) /\ lastStep.resp.kind = "object"
    /\ Get(lastStep.resp.obj, "emotion") = "CONFUSED"
    /\ analysisResult # NullResult
    /\ Get(analysisResult, "emotion") = "NEUTRAL"
    /\ Get(analysisResult, "encouragingMessage") = "well done"

\* C4: every tick of the interval timer of an active session snapshots a
\* frame and issues an analysis request.
C4_EveryTickCaptures == IsTick(lastStep) => lastStep.captured

\* C5: when the remote call rejects, the text is not valid JSON or parses to
\* null or to a non-object, analyzeImage throws the fixed Error; the caller
\* shows that message, leaves analysisResult and lastSpokenMessage as they
\* were and does not invoke speak.
C5_FailureLeavesResult ==
    [][(IsResponse(lastStep') /\ lastStep'.resp.kind \in FailureKinds) =>
          /\ ~lastStep'.ok
          /\ error' = GeminiError
          /\ analysisResult' = analysisResult
          /\ lastSpokenMessage' = lastSpokenMessage
          /\ lastStep'.spoke = NoCall
          /\ utterances' = utterances
          /\ spokenLast' = spokenLast]_vars

C5_Witness ==
    /\ IsResponse(lastStep) /\ lastStep.resp.kind = "primitive"
    /\ error = GeminiError
    /\ analysisResult # NullResult
    /\ lastSpokenMessage = "keep going"

\* C6: every result stored in analysisResult has all four properties.
C6_AllFieldsPresent ==
    analysisResult # NullResult => DOMAIN analysisResult = Fields

\* C7: while the component is mounted, isAnalyzing is false and no
\* getUserMedia call is pending, no stream is live and video.srcObject is
\* null.
C7_CameraReleased ==
    (mounted /\ ~isAnalyzing /\ gumPending = 0)
       => (liveStreams = {} /\ srcObject = 0 /\ streamRef = 0)

\* C8: an interval timer is registered if and only if isAnalyzing is true,
\* at most one is registered at any time, and none after unmount.
C8_OneTimerIffAnalyzing ==
    /\ Cardinality(timers) <= 1
    /\ (timers # {}) <=> isAnalyzing
    /\ timers # {} => intervalRef \in {t.id : t \in timers}
    /\ ~mounted => timers = {}

C8_Witness ==
    /\ isAnalyzing /\ Cardinality(timers) = 1
    /\ \E t \in timers : t.cIsLoading /\ t.cLast = "keep going"
    /\ error = CameraDenied

\* C9: the gradient, icon and title shown are those of the result's emotion,
\* NEUTRAL's without a result; the border effect is the emotion's only while
\* isAnalyzing with a result and NEUTRAL's otherwise; each of the eight
\* emotions has an entry in both tables.
C9_ThemeDerivedFromState ==
    LET e == IF analysisResult = NullResult THEN "NEUTRAL"
             ELSE Get(analysisResult, "emotion")
    IN /\ \A x \in Emotion : x \in DOMAIN emotionConfig /\ x \in DOMAIN emotionVisualEffects
       /\ e \in Emotion
       /\ view.gradient = emotionConfig[e].gradient
       /\ view.icon = emotionConfig[e].icon
       /\ view.title = emotionConfig[e].title
       /\ view.visualEffectClass =
            (IF isAnalyzing /\ analysisResult # NullResult
             THEN emotionVisualEffects[e]
             ELSE emotionVisualEffects["NEUTRAL"])

C9_Witness ==
    /\ isAnalyzing /\ analysisResult # NullResult
    /\ Get(analysisResult, "emotion") = "ANGRY"
    /\ view.title = "Feeling Angry"
    /\ view.visualEffectClass = "border-red-600/80 animate-shake-fast"

\* C10: speak cancels the ongoing speech before it queues the new utterance,
\* so at most one utterance is speaking or queued at any time.
C10_AtMostOneUtterance == Len(utterances) <= 1

\* C11: at most one analysis request is in flight at any time: a tick that
\* arrives while a request is pending issues none.
C11_AtMostOneInFlight == BagCardinality(inflight) <= 1

\* C12: while the component is mounted, isLoading is true if and only if an
\* analysis request is in flight.
C12_LoadingIffInFlight ==
    mounted => (isLoading <=> inflight # EmptyBag)

\* C13: from handleStop until the next handleStart, analysisResult and
\* lastSpokenMessage do not change and speak is not invoked.
C13_StopIsFinal ==
    [][(stopped /\ stopped') =>
          /\ analysisResult' = analysisResult
          /\ lastSpokenMessage' = lastSpokenMessage
          /\ ~(IsResponse(lastStep') /\ lastStep'.spoke # NoCall)]_vars

\* C14: a request issued before the handleStart of the running session
\* changes neither analysisResult nor error when it completes, and does not
\* set isAnalyzing to false.
C14_NoCrossSessionResponse ==
    [][(IsResponse(lastStep') /\ lastStep'.old /\ isAnalyzing) =>
          /\ analysisResult' = analysisResult
          /\ error' = error
          /\ isAnalyzing']_vars

\* C15: once camera acquisition has failed, its error message stays shown
\* until the next handleStart and no frame is captured or sent.
C15_CameraErrorStays ==
    [][(error \in {CameraUnsupported, CameraDenied}
          /\ lastStep'.op \notin {"start", "unmount"}) =>
          /\ error' = error
          /\ ~(IsTick(lastStep') /\ lastStep'.captured)]_vars

\* C16: a spoken message gets the preferred voice among the voices available
\* when it is spoken (Google and English, else en-US, else English, else the
\* default voice); for an empty text no utterance is created.
C16_VoiceOfCurrentList ==
    [][(IsResponse(lastStep') /\ lastStep'.spoke # NoCall) =>
          IF Falsy(lastStep'.spoke)
          THEN utterances' = utterances
          ELSE /\ utterances' # utterances
               /\ lastStep'.voice = PreferredVoice(voices)]_vars

=============================================================================
